---- MODULE Spec2Model ----
(***************************************************************************)
(* Model of up_fmap.fmap_planner.FMAPsolver: command-line construction    *)
(* (_manage_parameters, _get_cmd_ma), outcome classification               *)
(* (_result_status) and the step sequence of solve_ma.                     *)
(*                                                                         *)
(* A Python str is a sequence of text segments, so that concatenation     *)
(* (f-strings, "".join, os.path.join) is sequence concatenation and the    *)
(* empty string is << >>.  An Optional value is << >> for None and <<v>>   *)
(* for a value v.                                                          *)
(***************************************************************************)
EXTENDS Integers, Sequences, FiniteSets, TLC

\* ---------------------------------------------------------------- bounds
MaxAgents == 2
MaxChunks == 2

\* ---------------------------------------------------------------- values
None == << >>
Some(v) == <<v>>

AgentNames == {"a1", "a2", "a3"}
AlgorithmValues == {None, Some(<< >>), Some(<<"alg">>)}
HeuristicValues == {None, Some(<< >>), Some(<<"heu">>)}
TempDirs == {<<"/", "tmp", "/", "tmpA">>, <<"/", "tmp", "/", "tmpB">>}
ExitCodes == {0, 137}
ByteChunks == {"txt", "xff"}
JarPath == <<"up_fmap", "/", "FMAP/FMAP.jar">>

AgentSeqs ==
  {s \in UNION {[1..n -> AgentNames] : n \in 0..MaxAgents} :
     \A i, j \in DOMAIN s : i # j => s[i] # s[j]}

\* ------------------------------------------------------- string helpers
IsPrefix(p, s) == Len(p) <= Len(s) /\ SubSeq(s, 1, Len(p)) = p

\* os.path.join(a, b) for two components
PathJoin(a, b) ==
  IF b # << >> /\ b[1] = "/" THEN b
  ELSE IF a = << >> \/ a[Len(a)] = "/" THEN a \o b
  ELSE a \o <<"/">> \o b

\* path names a location inside directory dir
Inside(dir, path) == IsPrefix(dir \o <<"/">>, path)

RECURSIVE Join(_)
\* "".join(parts)
Join(parts) == IF parts = << >> THEN << >> ELSE Head(parts) \o Join(Tail(parts))

\* bytes.decode(): raises on an invalid byte, otherwise the same text
Decodable(bytes) == \A i \in DOMAIN bytes : bytes[i] # "xff"
Decode(bytes) == [i \in DOMAIN bytes |-> bytes[i]]

\* ------------------------------------------------------ command building
ManageParametersNonEmpty(command, search_algorithm, heuristic) ==
  LET c1 == IF search_algorithm # None /\ search_algorithm[1] # << >>
            THEN command \o <<<<"-s">>, search_algorithm[1]>> ELSE command
  IN  IF heuristic # None /\ heuristic[1] # << >>
      THEN c1 \o <<<<"-h">>, heuristic[1]>> ELSE c1

_manage_parameters(command, search_algorithm, heuristic) ==
  LET c1 == IF search_algorithm # None
            THEN command \o <<<<"-s">>, search_algorithm[1]>> ELSE command
  IN  IF heuristic # None
      THEN c1 \o <<<<"-h">>, heuristic[1]>> ELSE c1

AgentTriple(name, domain_filename, problem_filename) ==
  << <<name, "_type">>,
     <<"ma_pddl_">> \o domain_filename \o <<name, "_domain.pddl">>,
     <<"ma_pddl_">> \o problem_filename \o <<name, "_problem.pddl">> >>

RECURSIVE ExtendAgents(_, _, _, _)
ExtendAgents(base_command, ags, domain_filename, problem_filename) ==
  IF ags = << >> THEN base_command
  ELSE ExtendAgents(
         base_command \o AgentTriple(Head(ags), domain_filename, problem_filename),
         Tail(ags), domain_filename, problem_filename)

RECURSIVE ExtendAgentsReversed(_, _, _, _)
ExtendAgentsReversed(base_command, ags, domain_filename, problem_filename) ==
  IF ags = << >> THEN base_command
  ELSE ExtendAgentsReversed(base_command, Tail(ags), domain_filename, problem_filename)
         \o AgentTriple(Head(ags), domain_filename, problem_filename)

BaseCommand == << <<"java">>, <<"-jar">>, JarPath >>

GetCmdMaReversed(ags, domain_filename, problem_filename, plan_filename, search_algorithm, heuristic) ==
  _manage_parameters(
    ExtendAgentsReversed(BaseCommand, ags, domain_filename, problem_filename),
    search_algorithm, heuristic)

_get_cmd_ma(ags, domain_filename, problem_filename, plan_filename, search_algorithm, heuristic) ==
  _manage_parameters(
    ExtendAgents(BaseCommand, ags, domain_filename, problem_filename),
    search_algorithm, heuristic)

\* ------------------------------------------------------- classification
ResultStatusPlanFirst(plan, retval) ==
  IF plan = None THEN "UNSOLVABLE_PROVEN"
  ELSE IF retval # Some(0) THEN "INTERNAL_ERROR"
  ELSE "SOLVED_SATISFICING"

\* retval != 0 is true of None as of every nonzero integer
_result_status(plan, retval) ==
  IF retval # Some(0) THEN "INTERNAL_ERROR"
  ELSE IF plan = None THEN "UNSOLVABLE_PROVEN"
  ELSE "SOLVED_SATISFICING"

ClassifyTimeoutFirst(timeout_occurred, plan, retval) ==
  IF timeout_occurred THEN "TIMEOUT" ELSE _result_status(plan, retval)

ClassifyIgnoringTimeout(timeout_occurred, plan, retval) ==
  _result_status(plan, retval)

\* the status solve_ma returns: the early TIMEOUT return, else _result_status
Classify(timeout_occurred, plan, retval) ==
  IF timeout_occurred /\ retval # Some(0) THEN "TIMEOUT"
  ELSE _result_status(plan, retval)

\* ------------------------------------------------------------ file system
ExitWithKeep(files, dir) == files

\* leaving the TemporaryDirectory block removes the directory and its content
ExitWith(files, dir) == {p \in files : p # dir /\ ~Inside(dir, p)}

LogMessage(level, message) == [level |-> level, message |-> message]

LogsSwapped(proc_out, proc_err) ==
  << LogMessage("ERROR", Join(proc_err)), LogMessage("INFO", Join(proc_out)) >>

MakeLogs(proc_out, proc_err) ==
  << LogMessage("INFO", Join(proc_out)), LogMessage("ERROR", Join(proc_err)) >>

PlanGenerationResult(status, plan, log_messages) ==
  [status |-> status, plan |-> plan, log_messages |-> log_messages, engine_name |-> "FMAP"]

\* ------------------------------------------------------------------ state
VARIABLES
  agents, search_algorithm, heuristic, timeout, output_stream,
  pc, tempdir, fs, domain_filename, problem_filename, plan_filename,
  writer_calls, cmd, launches,
  child_state, child_out, child_err, child_code,
  timeout_occurred, proc_out, proc_err, retval,
  logs, plan, plan_file_seen, result, produced, events

inputs == <<agents, search_algorithm, heuristic, timeout, output_stream>>
names == <<tempdir, domain_filename, problem_filename, plan_filename>>
childv == <<child_state, child_out, child_err, child_code>>
waitv == <<timeout_occurred, proc_out, proc_err, retval, produced>>
vars == <<inputs, pc, names, fs, writer_calls, cmd, launches, childv, waitv,
          logs, plan, plan_file_seen, result, events>>

Init ==
  /\ agents \in AgentSeqs
  /\ search_algorithm \in AlgorithmValues
  /\ heuristic \in HeuristicValues
  /\ timeout \in {None, Some("seconds")}
  /\ output_stream \in BOOLEAN
  /\ pc = "start"
  /\ tempdir = None /\ domain_filename = None /\ problem_filename = None
  /\ plan_filename = None
  /\ fs = {}
  /\ writer_calls = << >>
  /\ cmd = << >>
  /\ launches = 0
  /\ child_state = "none" /\ child_out = << >> /\ child_err = << >>
  /\ child_code = None
  /\ timeout_occurred = FALSE /\ proc_out = << >> /\ proc_err = << >>
  /\ retval = None /\ produced = None
  /\ logs = << >>
  /\ plan = None
  /\ plan_file_seen = None
  /\ result = None
  /\ events = << >>

\* ---------------------------------------------------------------- solve_ma
Under(files, dir) == {p \in files : p = dir \/ Inside(dir, p)}

\* an exception leaving the with block: the directory is cleaned up, no result
Propagate(steps) ==
  /\ pc' = "raised"
  /\ fs' = ExitWith(fs, tempdir)
  /\ events' = events \o steps \o <<"rmtree">>

EnterTempDir ==
  /\ pc = "start"
  /\ \E d \in TempDirs :
       /\ tempdir' = d
       /\ fs' = fs \cup {d}
       /\ domain_filename' = PathJoin(d, <<"domain.pddl", "/">>)
       /\ problem_filename' = PathJoin(d, <<"problem.pddl", "/">>)
       /\ plan_filename' = PathJoin(d, <<"plan.txt">>)
  /\ pc' = "write_domain"
  /\ events' = events \o <<"mkdtemp">>
  /\ UNCHANGED <<inputs, writer_calls, cmd, launches, childv, waitv, logs, plan,
                 plan_file_seen, result>>

WriteDomain ==
  /\ pc = "write_domain"
  /\ writer_calls' = Append(writer_calls, [op |-> "write_ma_domain", dir |-> domain_filename])
  /\ pc' = "write_problem"
  /\ events' = events \o <<"write_domain">>
  /\ UNCHANGED <<inputs, names, fs, cmd, launches, childv, waitv, logs, plan,
                 plan_file_seen, result>>

WriteProblem ==
  /\ pc = "write_problem"
  /\ writer_calls' = Append(writer_calls, [op |-> "write_ma_problem", dir |-> problem_filename])
  /\ pc' = "get_cmd"
  /\ events' = events \o <<"write_problem">>
  /\ UNCHANGED <<inputs, names, fs, cmd, launches, childv, waitv, logs, plan,
                 plan_file_seen, result>>

\* the writer fails (unwritable location, unsupported construct)
WriterRaises ==
  /\ pc \in {"write_domain", "write_problem"}
  /\ Propagate(<< >>)
  /\ UNCHANGED <<inputs, names, writer_calls, cmd, launches, childv, waitv, logs,
                 plan, plan_file_seen, result>>

GetCmd ==
  /\ pc = "get_cmd"
  /\ cmd' = _get_cmd_ma(agents, domain_filename, problem_filename, plan_filename, search_algorithm, heuristic)
  /\ pc' = "launch"
  /\ UNCHANGED <<inputs, names, fs, writer_calls, launches, childv, waitv, logs,
                 plan, plan_file_seen, result, events>>

\* subprocess.Popen, or the process start inside the streaming runner
Launch ==
  /\ pc = "launch"
  /\ launches' = launches + 1
  /\ child_state' = "running"
  /\ child_out' = << >> /\ child_err' = << >> /\ child_code' = None
  /\ pc' = "wait"
  /\ events' = events \o <<"launch">>
  /\ UNCHANGED <<inputs, names, fs, writer_calls, cmd, waitv, logs, plan,
                 plan_file_seen, result>>

\* the executable is missing or may not be run
LaunchRaises ==
  /\ pc = "launch"
  /\ Propagate(<< >>)
  /\ UNCHANGED <<inputs, names, writer_calls, cmd, launches, childv, waitv, logs,
                 plan, plan_file_seen, result>>

\* -------------------------------------------------- the child process
\* The solver is opaque: it may write to its pipes, create the plan file
\* while the directory exists, and end with any exit code (a kill included).
\* Output written after the wait has ended is never read and is left out.
ChildWrite ==
  /\ child_state = "running"
  /\ pc = "wait"
  /\ Len(child_out) + Len(child_err) < MaxChunks
  /\ \E c \in ByteChunks :
       \/ child_out' = Append(child_out, c) /\ child_err' = child_err
       \/ child_err' = Append(child_err, c) /\ child_out' = child_out
  /\ UNCHANGED <<inputs, pc, names, fs, writer_calls, cmd, launches, child_state,
                 child_code, waitv, logs, plan, plan_file_seen, result, events>>

ChildWritesPlan ==
  /\ child_state = "running"
  /\ tempdir \in fs
  /\ plan_filename \notin fs
  /\ fs' = fs \cup {plan_filename}
  /\ UNCHANGED <<inputs, pc, names, writer_calls, cmd, launches, childv, waitv,
                 logs, plan, plan_file_seen, result, events>>

ChildExit ==
  /\ child_state = "running"
  /\ \E code \in ExitCodes : child_code' = Some(code)
  /\ child_state' = "exited"
  /\ UNCHANGED <<inputs, pc, names, fs, writer_calls, cmd, launches, child_out,
                 child_err, waitv, logs, plan, plan_file_seen, result, events>>

\* ------------------------------------------------------ waiting for it
Lines(bytes) == [i \in DOMAIN bytes |-> <<bytes[i]>>]

\* communicate() returns: one decoded string per pipe, the exit code collected
Communicate ==
  /\ pc = "wait" /\ ~output_stream
  /\ child_state = "exited"
  /\ Decodable(child_out) /\ Decodable(child_err)
  /\ timeout_occurred' = FALSE
  /\ proc_out' = <<Decode(child_out)>>
  /\ proc_err' = <<Decode(child_err)>>
  /\ retval' = child_code
  /\ produced' = Some([out |-> child_out, err |-> child_err])
  /\ pc' = "logs"
  /\ events' = events \o <<"ended">>
  /\ UNCHANGED <<inputs, names, fs, writer_calls, cmd, launches, childv, logs,
                 plan, plan_file_seen, result>>

\* communicate() raises TimeoutExpired: the wait is abandoned, nothing was
\* assigned to proc_out/proc_err and returncode is still None
CommunicateTimeout ==
  /\ pc = "wait" /\ ~output_stream
  /\ timeout # None
  /\ timeout_occurred' = TRUE
  /\ proc_out' = << >>
  /\ proc_err' = << >>
  /\ retval' = None
  /\ produced' = Some([out |-> child_out, err |-> child_err])
  /\ pc' = "logs"
  /\ events' = events \o <<"timeout">>
  /\ UNCHANGED <<inputs, names, fs, writer_calls, cmd, launches, childv, logs,
                 plan, plan_file_seen, result>>

\* the streaming runner returns (timeout flag, (out lines, err lines), exit code)
RunCommand ==
  /\ pc = "wait" /\ output_stream
  /\ child_state = "exited"
  /\ Decodable(child_out) /\ Decodable(child_err)
  /\ \E flag \in BOOLEAN :
       /\ flag => timeout # None
       /\ timeout_occurred' = flag
       /\ events' = events \o <<IF flag THEN "timeout" ELSE "ended">>
  /\ proc_out' = Lines(Decode(child_out))
  /\ proc_err' = Lines(Decode(child_err))
  /\ retval' = child_code
  /\ produced' = Some([out |-> child_out, err |-> child_err])
  /\ pc' = "logs"
  /\ UNCHANGED <<inputs, names, fs, writer_calls, cmd, launches, childv, logs,
                 plan, plan_file_seen, result>>

\* the captured bytes are not valid text: decode() raises out of the call
OutputRaises ==
  /\ pc = "wait"
  /\ child_state = "exited"
  /\ ~(Decodable(child_out) /\ Decodable(child_err))
  /\ Propagate(<<"ended">>)
  /\ UNCHANGED <<inputs, names, writer_calls, cmd, launches, childv, waitv, logs,
                 plan, plan_file_seen, result>>

AppendLogs ==
  /\ pc = "logs"
  /\ logs' = logs \o MakeLogs(proc_out, proc_err)
  /\ pc' = "isfile"
  /\ UNCHANGED <<inputs, names, fs, writer_calls, cmd, launches, childv, waitv,
                 plan, plan_file_seen, result, events>>

CheckPlanFileAlways ==
  /\ pc = "isfile"
  /\ plan_file_seen' = Some(plan_filename \in fs)
  /\ plan' = Some("plan")
  /\ events' = events \o <<"isfile", "parse">>
  /\ pc' = "classify"
  /\ UNCHANGED <<inputs, names, fs, writer_calls, cmd, launches, childv, waitv,
                 logs, result>>

\* os.path.isfile(plan_filename), then _plan_from_file when it is there
CheckPlanFile ==
  /\ pc = "isfile"
  /\ plan_file_seen' = Some(plan_filename \in fs)
  /\ plan' = IF plan_filename \in fs THEN Some("plan") ELSE plan
  /\ events' = events \o (IF plan_filename \in fs THEN <<"isfile", "parse">> ELSE <<"isfile">>)
  /\ pc' = "classify"
  /\ UNCHANGED <<inputs, names, fs, writer_calls, cmd, launches, childv, waitv,
                 logs, result>>

\* the plan file is there but cannot be parsed
PlanFromFileRaises ==
  /\ pc = "isfile"
  /\ plan_filename \in fs
  /\ plan_file_seen' = Some(TRUE)
  /\ Propagate(<<"isfile", "parse">>)
  /\ UNCHANGED <<inputs, names, writer_calls, cmd, launches, childv, waitv, logs,
                 plan, result>>

ReturnWithRetry ==
  /\ pc = "classify"
  /\ IF retval # Some(0)
     THEN /\ pc' = "launch"
          /\ UNCHANGED <<fs, result, events>>
     ELSE /\ result' = Some(PlanGenerationResult(Classify(timeout_occurred, plan, retval), plan, logs))
          /\ fs' = ExitWith(fs, tempdir)
          /\ pc' = "returned"
          /\ events' = events \o <<"rmtree">>
  /\ UNCHANGED <<inputs, names, writer_calls, cmd, launches, childv, waitv, logs,
                 plan, plan_file_seen>>

\* the early TIMEOUT return or the final return; both leave the with block
Return ==
  /\ pc = "classify"
  /\ result' = Some(PlanGenerationResult(Classify(timeout_occurred, plan, retval), plan, logs))
  /\ fs' = ExitWith(fs, tempdir)
  /\ pc' = "returned"
  /\ events' = events \o <<"rmtree">>
  /\ UNCHANGED <<inputs, names, writer_calls, cmd, launches, childv, waitv, logs,
                 plan, plan_file_seen>>

Next ==
  \/ EnterTempDir \/ WriteDomain \/ WriteProblem \/ WriterRaises
  \/ GetCmd \/ Launch \/ LaunchRaises
  \/ ChildWrite \/ ChildWritesPlan \/ ChildExit
  \/ Communicate \/ CommunicateTimeout \/ RunCommand \/ OutputRaises
  \/ AppendLogs \/ CheckPlanFile \/ PlanFromFileRaises \/ Return

Spec == Init /\ [][Next]_vars

\* ============================================================ properties
Returned == pc = "returned"
Ended == pc \in {"returned", "raised"}
Status == result[1].status
CmdBuilt == cmd # << >>
HasToken(t) == \E i \in DOMAIN cmd : cmd[i] = t
HasEvent(e) == \E i \in DOMAIN events : events[i] = e
TokenOfAgent(i, k) == cmd[3 * i + k]

\* C1: every returned result has one of the four statuses; TIMEOUT exactly
\* when a timeout occurred and the exit code is not 0; without a timeout,
\* INTERNAL_ERROR for a nonzero exit code (plan file or not),
\* UNSOLVABLE_PROVEN for exit code 0 without plan file, SOLVED for exit code 0
\* with plan file.
C1_StatusTable ==
  Returned =>
    /\ Status \in {"TIMEOUT", "INTERNAL_ERROR", "UNSOLVABLE_PROVEN", "SOLVED_SATISFICING"}
    /\ (Status = "TIMEOUT") <=> (timeout_occurred /\ retval # Some(0))
    /\ ~timeout_occurred =>
         Status = (IF retval # Some(0) THEN "INTERNAL_ERROR"
                   ELSE IF plan_file_seen = Some(FALSE) THEN "UNSOLVABLE_PROVEN"
                   ELSE "SOLVED_SATISFICING")

C1_Witness ==
  /\ Returned /\ ~timeout_occurred /\ retval = Some(137)
  /\ plan_file_seen = Some(TRUE) /\ Status = "INTERNAL_ERROR"

\* C2 as stated: whenever a timeout occurred, on either path and for every
\* exit code, the returned status is TIMEOUT.
C2_TimeoutAlwaysTimeout ==
  (Returned /\ timeout_occurred) => Status = "TIMEOUT"

\* C2 amended: after a timeout the non-streaming path has collected no exit
\* code and returns TIMEOUT; the streaming path returns TIMEOUT exactly when
\* the reported exit code is not 0.
C2_TimeoutStatus ==
  (Returned /\ timeout_occurred) =>
    /\ ~output_stream => (retval = None /\ Status = "TIMEOUT")
    /\ output_stream => ((Status = "TIMEOUT") <=> (retval # Some(0)))

C2_Witness ==
  /\ Returned /\ timeout_occurred /\ ~output_stream
  /\ child_state = "running" /\ Status = "TIMEOUT"

\* C3 as stated: timeout with exit code 0 is classified INTERNAL_ERROR.
C3_TimeoutZeroIsInternalError ==
  (Returned /\ timeout_occurred /\ retval = Some(0)) => Status = "INTERNAL_ERROR"

\* C3 amended: timeout with exit code 0 is classified as a run without
\* timeout: SOLVED when the plan file existed, UNSOLVABLE_PROVEN when not.
C3_TimeoutZeroStatus ==
  (Returned /\ timeout_occurred /\ retval = Some(0)) =>
    Status = (IF plan_file_seen = Some(TRUE) THEN "SOLVED_SATISFICING"
              ELSE "UNSOLVABLE_PROVEN")

C3_Witness ==
  /\ Returned /\ timeout_occurred /\ retval = Some(0)
  /\ plan_file_seen = Some(FALSE) /\ Status = "UNSOLVABLE_PROVEN"

\* C4: once the call has ended, by a return of any status or by an exception
\* of the writer, the launch, the decoding or the plan parsing, the temporary
\* directory and everything in it are gone.
C4_TempDirRemoved ==
  /\ Ended => (tempdir # None /\ Under(fs, tempdir) = {})
  /\ (pc \notin {"start", "returned", "raised"}) => tempdir \in fs

C4_Witness ==
  /\ pc = "raised" /\ plan_file_seen = Some(TRUE) /\ launches = 1

\* C5 as stated: every domain and problem path on the command line, and every
\* location handed to the writer, lies inside the call's temporary directory.
C5_PathsInsideTempDir ==
  CmdBuilt =>
    /\ \A i \in DOMAIN agents :
         /\ Inside(tempdir, TokenOfAgent(i, 2))
         /\ Inside(tempdir, TokenOfAgent(i, 3))
    /\ \A k \in DOMAIN writer_calls : Inside(tempdir, writer_calls[k].dir)

\* C6: the command is java -jar <jar>, then one triple (<name>_type, domain
\* path, problem path) per agent in the order of the agent sequence, then
\* nothing but flag/value pairs.
C6_CommandShape ==
  CmdBuilt =>
    LET n == Len(agents)
        rest == SubSeq(cmd, 3 * n + 4, Len(cmd))
    IN  /\ Len(cmd) >= 3 * n + 3
        /\ SubSeq(cmd, 1, 3) = << <<"java">>, <<"-jar">>, JarPath >>
        /\ \A i \in 1..n :
             /\ TokenOfAgent(i, 1) = <<agents[i], "_type">>
             /\ TokenOfAgent(i, 2) = <<"ma_pddl_">> \o domain_filename \o <<agents[i], "_domain.pddl">>
             /\ TokenOfAgent(i, 3) = <<"ma_pddl_">> \o problem_filename \o <<agents[i], "_problem.pddl">>
        /\ Len(rest) \in {0, 2, 4}
        /\ \A k \in DOMAIN rest : (k % 2 = 1) => rest[k] \in {<<"-s">>, <<"-h">>}

C6_Witness ==
  /\ CmdBuilt /\ Len(agents) = 2 /\ search_algorithm # None /\ heuristic = None

\* C7 as stated: -s (-h) appears only for a non-empty parameter and is
\* followed by a non-empty value.
C7_FlagsOnlyIfNonEmpty ==
  CmdBuilt =>
    /\ HasToken(<<"-s">>) => (search_algorithm # None /\ search_algorithm[1] # << >>)
    /\ HasToken(<<"-h">>) => (heuristic # None /\ heuristic[1] # << >>)
    /\ \A i \in DOMAIN cmd :
         cmd[i] \in {<<"-s">>, <<"-h">>} => (i < Len(cmd) /\ cmd[i + 1] # << >>)

\* C7 amended: -s (-h) appears exactly when the parameter is set (not None),
\* the empty string included; each flag is immediately followed by the
\* parameter's value; an unset parameter emits nothing; the pairs end the
\* command, -s before -h.
C7_FlagsIffSet ==
  CmdBuilt =>
    LET n == Len(agents)
        ns == IF search_algorithm # None THEN 2 ELSE 0
        nh == IF heuristic # None THEN 2 ELSE 0
    IN  /\ Len(cmd) = 3 * n + 3 + ns + nh
        /\ HasToken(<<"-s">>) <=> (search_algorithm # None)
        /\ HasToken(<<"-h">>) <=> (heuristic # None)
        /\ search_algorithm # None =>
             /\ cmd[3 * n + 4] = <<"-s">>
             /\ cmd[3 * n + 5] = search_algorithm[1]
        /\ heuristic # None =>
             /\ cmd[Len(cmd) - 1] = <<"-h">>
             /\ cmd[Len(cmd)] = heuristic[1]

C7_Witness ==
  /\ CmdBuilt /\ search_algorithm = Some(<< >>) /\ heuristic = Some(<<"heu">>)
  /\ HasToken(<<"-s">>)

\* C8: a plan is present exactly when the plan file existed when it was
\* checked; a SOLVED result carries a plan, an UNSOLVABLE_PROVEN result none,
\* and no plan exists at any time without a plan file having been seen.
C8_PlanIffFile ==
  /\ plan # None => plan_file_seen = Some(TRUE)
  /\ Returned =>
       /\ (result[1].plan # None) <=> (plan_file_seen = Some(TRUE))
       /\ Status = "SOLVED_SATISFICING" => result[1].plan # None
       /\ Status = "UNSOLVABLE_PROVEN" => result[1].plan = None

C8_Witness ==
  /\ Returned /\ Status = "TIMEOUT" /\ result[1].plan # None

\* C9 as stated: the result carries an INFO entry with the stdout and an
\* ERROR entry with the stderr the child had produced when it ended or the
\* timeout was declared.
C9_LogsHoldProducedOutput ==
  Returned =>
    result[1].log_messages =
      << LogMessage("INFO", produced[1].out), LogMessage("ERROR", produced[1].err) >>

\* C9 amended: exactly two entries, INFO then ERROR; they hold the child's
\* stdout and stderr, except after a timeout on the non-streaming path, where
\* both are empty whatever the child had produced.
C9_TwoLogEntries ==
  Returned =>
    LET dropped == ~output_stream /\ timeout_occurred
    IN  result[1].log_messages =
          << LogMessage("INFO", IF dropped THEN << >> ELSE produced[1].out),
             LogMessage("ERROR", IF dropped THEN << >> ELSE produced[1].err) >>

C9_Witness ==
  /\ Returned /\ ~output_stream /\ timeout_occurred
  /\ produced[1].out # << >> /\ produced[1].err = << >>
  /\ result[1].log_messages[1].message = << >>

Rank(e) ==
  CASE e = "mkdtemp" -> 1
    [] e = "write_domain" -> 2
    [] e = "write_problem" -> 3
    [] e = "launch" -> 4
    [] e \in {"ended", "timeout"} -> 5
    [] e = "isfile" -> 6
    [] e = "parse" -> 7
    [] e = "rmtree" -> 8

\* C10: the steps of a call happen at most once each and in the order
\* directory, domain files, problem files, launch, end or timeout, plan-file
\* check, parsing, removal; a returned call has launched exactly once.
C10_StepOrder ==
  /\ \A i, j \in DOMAIN events : i < j => Rank(events[i]) < Rank(events[j])
  /\ launches <= 1
  /\ HasEvent("launch") =>
       (HasEvent("mkdtemp") /\ HasEvent("write_domain") /\ HasEvent("write_problem"))
  /\ HasEvent("isfile") =>
       (launches = 1 /\ (HasEvent("ended") \/ HasEvent("timeout")))
  /\ HasEvent("parse") => HasEvent("isfile")
  /\ Returned => (launches = 1 /\ HasEvent("isfile") /\ HasEvent("rmtree"))

C10_Witness ==
  /\ Returned /\ retval = Some(137)
  /\ events = <<"mkdtemp", "write_domain", "write_problem", "launch", "ended",
                "isfile", "parse", "rmtree">>

====
